---- MODULE Spec2Model ----
(***************************************************************************)
(* A model of sp_trans.py: the decoder of spectrophotometer binary files   *)
(* (process_spectro_file) and the command-line loop that calls it.         *)
(*                                                                         *)
(* Bytes are the integers 0..255 and a buffer is a sequence of bytes.      *)
(* Python offsets are 0-based: offset k of a buffer b is b[k+1] here.      *)
(* A Python float (IEEE-754 binary64) is a record                          *)
(*     [k |-> "nan", s |-> 0, m |-> <<>>, e |-> 0]    not-a-number         *)
(*     [k |-> "inf", s |-> 0 or 1, m |-> <<>>, e |-> 0]   +/- infinity     *)
(*     [k |-> "fin", s |-> 0 or 1, m |-> M, e |-> E]  (-1)^s * M * 2^E     *)
(* where M is a natural number of at most 53 bits, written as a sequence   *)
(* of base-2^15 digits, least significant first, and odd unless it is zero *)
(* (<<>>, with E = 0): a value other than zero has one representation, and *)
(* zero has two, +0.0 and -0.0, as in IEEE-754.                            *)
(*                                                                         *)
(* Spec is one call of the decoder on one file, BatchSpec the command-line *)
(* loop, and AxisSpec the decoder together with the expression of the      *)
(* wavelengths (lines 83-84) applied to point counts that no buffer of     *)
(* Spec reaches: those of data regions of 1 GiB and more.                  *)
(***************************************************************************)
EXTENDS Integers, Sequences, FiniteSets, TLC

VARIABLES stdout_strict, argv, fi, fs, producer, log, input_path,
          output_path, content, header_end, pat_idx, data_type,
          data_point_count, values, wavelengths, rows, axis, pc

vars == <<stdout_strict, argv, fi, fs, producer, log, input_path,
          output_path, content, header_end, pat_idx, data_type,
          data_point_count, values, wavelengths, rows, axis, pc>>

----------------------------------------------------------------------------
(* Bytes and byte strings *)

Byte == 0..255

Min2(a, b) == IF a <= b THEN a ELSE b

Max2(a, b) == IF a >= b THEN a ELSE b

\* b'.WAV'
WavTag == <<46, 87, 65, 86>>

\* b'\x00'
NullByte == <<0>>

\* pattern = b'\x00\x00\x00\x00\x40\x40\x00\x00'
pattern == <<0, 0, 0, 0, 64, 64, 0, 0>>

\* The least header length assumed when the pattern is not found.
MinHeader == 100

\* Whether needle occurs in hay at (0-based) offset k.
MatchAt(hay, needle, k) ==
    /\ k >= 0
    /\ k + Len(needle) <= Len(hay)
    /\ \A j \in 1..Len(needle) : hay[k + j] = needle[j]

\* The offsets at or after start where needle occurs in hay.
Occurrences(hay, needle, start) ==
    {k \in start..(Len(hay) - Len(needle)) : MatchAt(hay, needle, k)}

\* content.find(needle, start) for start >= 0: the lowest offset at or
\* after start where needle occurs, -1 when there is none.
Find(hay, needle, start) ==
    LET hits == Occurrences(hay, needle, start)
    IN IF hits = {} THEN -1
       ELSE CHOOSE k \in hits : \A j \in hits : k <= j

\* SliceIndex with the index 0 taken for the end of the buffer, as a
\* negative index is.
SliceIndexZeroIsEnd(n, i) == IF i <= 0 THEN Max2(n + i, 0) ELSE Min2(i, n)

\* A Python slice index: negative counts from the end, then clamped.
SliceIndex(n, i) == IF i < 0 THEN Max2(n + i, 0) ELSE Min2(i, n)

\* content[a:b]
PySlice(b, lo, hi) ==
    LET l == SliceIndex(Len(b), lo)
        h == SliceIndex(Len(b), hi)
    IN IF l >= h THEN <<>> ELSE SubSeq(b, l + 1, h)

----------------------------------------------------------------------------
(* Step 1 and 2 of process_spectro_file: the end of the header *)

\* header_end after step 1: the byte after the null that follows ".WAV".
AsciiHeaderEnd(c) ==
    LET idx == Find(c, WavTag, 0)
    IN IF idx # -1
       THEN LET null_pos == Find(c, NullByte, idx)
            IN IF null_pos # -1 THEN null_pos + 1 ELSE 0
       ELSE 0

\* PatIdx searching from the start of the buffer.
PatIdxFromStart(c) == Find(c, pattern, 0)

\* pat_idx = content.find(pattern, header_end)
PatIdx(c) == Find(c, pattern, AsciiHeaderEnd(c))

\* HeaderEnd skipping 100 bytes more instead of at least 100.
HeaderEndAddsMinimum(c) ==
    IF PatIdx(c) # -1
    THEN PatIdx(c) + Len(pattern)
    ELSE AsciiHeaderEnd(c) + MinHeader

\* header_end after step 2.
HeaderEnd(c) ==
    IF PatIdx(c) # -1
    THEN PatIdx(c) + Len(pattern)
    ELSE Max2(AsciiHeaderEnd(c), MinHeader)

\* data_bytes = content[header_end:]
DataBytes(c, he) == PySlice(c, he, Len(c))

----------------------------------------------------------------------------
(* Natural numbers of any size: sequences of base-2^15 digits, least       *)
(* significant first, with no leading zero digit (zero is <<>>).           *)

Radix == 2^15

RECURSIVE BNorm(_)
BNorm(a) ==
    IF a = <<>> THEN a
    ELSE IF a[Len(a)] = 0 THEN BNorm(SubSeq(a, 1, Len(a) - 1))
    ELSE a

RECURSIVE BFromInt(_)
BFromInt(n) ==
    IF n = 0 THEN <<>> ELSE <<n % Radix>> \o BFromInt(n \div Radix)

BDigit(a, i) == IF i <= Len(a) THEN a[i] ELSE 0

RECURSIVE BAddC(_, _, _, _)
BAddC(a, b, i, carry) ==
    IF i > Max2(Len(a), Len(b))
    THEN IF carry = 0 THEN <<>> ELSE <<carry>>
    ELSE LET t == BDigit(a, i) + BDigit(b, i) + carry
         IN <<t % Radix>> \o BAddC(a, b, i + 1, t \div Radix)

BAdd(a, b) == BAddC(a, b, 1, 0)

RECURSIVE BSubC(_, _, _, _)
BSubC(a, b, i, borrow) ==
    IF i > Len(a) THEN <<>>
    ELSE LET t == a[i] - BDigit(b, i) - borrow
         IN <<IF t < 0 THEN t + Radix ELSE t>>
                \o BSubC(a, b, i + 1, IF t < 0 THEN 1 ELSE 0)

\* a - b, for a >= b.
BSub(a, b) == BNorm(BSubC(a, b, 1, 0))

RECURSIVE BCmpAt(_, _, _)
BCmpAt(a, b, i) ==
    IF i = 0 THEN 0
    ELSE IF a[i] < b[i] THEN -1
    ELSE IF a[i] > b[i] THEN 1
    ELSE BCmpAt(a, b, i - 1)

\* -1, 0 or 1 as a < b, a = b or a > b.
BCmp(a, b) ==
    IF Len(a) < Len(b) THEN -1
    ELSE IF Len(a) > Len(b) THEN 1
    ELSE BCmpAt(a, b, Len(a))

RECURSIVE BMulC(_, _, _, _)
BMulC(a, n, i, carry) ==
    IF i > Len(a)
    THEN IF carry = 0 THEN <<>> ELSE <<carry>>
    ELSE LET t == a[i] * n + carry
         IN <<t % Radix>> \o BMulC(a, n, i + 1, t \div Radix)

\* a * n, for 0 <= n < Radix.
BMulSmall(a, n) == BNorm(BMulC(a, n, 1, 0))

RECURSIVE BDivC(_, _, _, _)
BDivC(a, n, i, r) ==
    IF i = 0 THEN [q |-> <<>>, r |-> r]
    ELSE LET t == r * Radix + a[i]
             rest == BDivC(a, n, i - 1, t % n)
         IN [q |-> Append(rest.q, t \div n), r |-> rest.r]

\* The quotient and the remainder of a by n, for 1 <= n < Radix.
BDivSmall(a, n) ==
    LET d == BDivC(a, n, Len(a), 0) IN [q |-> BNorm(d.q), r |-> d.r]

\* a * n, for 0 <= n <= 2^30.
BMulInt(a, n) ==
    BNorm(BAdd(BMulSmall(a, n % Radix),
               <<0>> \o BMulSmall(a, n \div Radix)))

RECURSIVE BitsDiv(_, _, _, _)
\* The quotient and the remainder of r * 2^j + (d mod 2^j) by n, for
\* 0 <= r < n <= 2^30, one bit at a time.
BitsDiv(r, d, n, j) ==
    IF j = 0 THEN [q |-> 0, r |-> r]
    ELSE LET t    == 2 * r + ((d \div 2^(j - 1)) % 2)
             b    == IF t >= n THEN 1 ELSE 0
             rest == BitsDiv(t - b * n, d, n, j - 1)
         IN [q |-> b * 2^(j - 1) + rest.q, r |-> rest.r]

RECURSIVE BDivIntC(_, _, _, _)
BDivIntC(a, n, i, r) ==
    IF i = 0 THEN [q |-> <<>>, r |-> r]
    ELSE LET t    == BitsDiv(r, a[i], n, 15)
             rest == BDivIntC(a, n, i - 1, t.r)
         IN [q |-> Append(rest.q, t.q), r |-> rest.r]

\* The quotient and the remainder of a by n, for 1 <= n <= 2^30.
BDivInt(a, n) ==
    LET d == BDivIntC(a, n, Len(a), 0) IN [q |-> BNorm(d.q), r |-> d.r]

\* a * 2^sh
BShl(a, sh) ==
    IF a = <<>> THEN <<>>
    ELSE [j \in 1..(sh \div 15) |-> 0] \o BMulSmall(a, 2^(sh % 15))

\* floor(a / 2^sh), and whether a bit was shifted out.
BShr(a, sh) ==
    LET d  == Min2(sh \div 15, Len(a))
        dv == BDivSmall(SubSeq(a, d + 1, Len(a)), 2^(sh % 15))
    IN [q |-> dv.q,
        sticky |-> dv.r # 0 \/ \E j \in 1..d : a[j] # 0]

RECURSIVE IntBitLen(_)
IntBitLen(n) == IF n = 0 THEN 0 ELSE 1 + IntBitLen(n \div 2)

BBitLen(a) ==
    IF a = <<>> THEN 0 ELSE 15 * (Len(a) - 1) + IntBitLen(a[Len(a)])

BIsOdd(a) == a # <<>> /\ a[1] % 2 = 1

RECURSIVE IntTrailingZeros(_)
IntTrailingZeros(n) == IF n % 2 = 1 THEN 0 ELSE 1 + IntTrailingZeros(n \div 2)

RECURSIVE BTrailingZeros(_)
\* The number of trailing zero bits of a # 0.
BTrailingZeros(a) ==
    IF a[1] = 0 THEN 15 + BTrailingZeros(Tail(a))
    ELSE IntTrailingZeros(a[1])

----------------------------------------------------------------------------
(* Python floats: IEEE-754 binary64, round to nearest, ties to even *)

NaN == [k |-> "nan", s |-> 0, m |-> <<>>, e |-> 0]

Inf(s) == [k |-> "inf", s |-> s, m |-> <<>>, e |-> 0]

Zero(s) == [k |-> "fin", s |-> s, m |-> <<>>, e |-> 0]

\* (-1)^s * m * 2^e with the trailing zero bits of m moved into e.
Canonical(s, m, e) ==
    IF m = <<>> THEN Zero(s)
    ELSE LET tz == BTrailingZeros(m)
         IN [k |-> "fin", s |-> s, m |-> BShr(m, tz).q, e |-> e + tz]

\* The binary64 nearest to (-1)^s * (m + f) * 2^e, where 0 <= f < 1 and
\* sticky says whether f > 0 (then m has more than 53 bits): 53 bits of
\* precision, least exponent -1074, overflow to infinity.
RoundFin(s, m, e, sticky) ==
    LET sh == Max2(BBitLen(m) - 53, Max2((0 - 1074) - e, 0))
    IN IF sh = 0
       THEN IF BBitLen(m) + e > 1024 THEN Inf(s) ELSE Canonical(s, m, e)
       ELSE LET r     == BShr(m, sh - 1)
                guard == BIsOdd(r.q)
                q     == BDivSmall(r.q, 2).q
                st    == r.sticky \/ sticky
                q2    == IF guard /\ (st \/ BIsOdd(q)) THEN BAdd(q, <<1>>) ELSE q
            IN IF BBitLen(q2) + e + sh > 1024 THEN Inf(s)
               ELSE Canonical(s, q2, e + sh)

\* float(n) for an integer n.
DFromInt(n) ==
    IF n >= 0 THEN RoundFin(0, BFromInt(n), 0, FALSE)
    ELSE RoundFin(1, BFromInt(0 - n), 0, FALSE)

DNeg(x) == IF x.k = "nan" THEN x ELSE [x EXCEPT !.s = 1 - x.s]

\* x + y
DAdd(x, y) ==
    IF x.k = "nan" \/ y.k = "nan" THEN NaN
    ELSE IF x.k = "inf"
         THEN IF y.k = "inf" /\ y.s # x.s THEN NaN ELSE x
    ELSE IF y.k = "inf" THEN y
    ELSE IF x.m = <<>> /\ y.m = <<>>
         THEN Zero(IF x.s = 1 /\ y.s = 1 THEN 1 ELSE 0)
    ELSE LET e == Min2(x.e, y.e)
             a == BShl(x.m, x.e - e)
             b == BShl(y.m, y.e - e)
             c == BCmp(a, b)
         IN IF x.s = y.s THEN RoundFin(x.s, BAdd(a, b), e, FALSE)
            ELSE IF c = 0 THEN Zero(0)
            ELSE IF c = 1 THEN RoundFin(x.s, BSub(a, b), e, FALSE)
            ELSE RoundFin(y.s, BSub(b, a), e, FALSE)

\* x - y
DSub(x, y) == DAdd(x, DNeg(y))

\* x / n for an integer n, 1 <= n <= 2^30 (n is converted to float first,
\* exactly).
DDivInt(x, n) ==
    IF x.k # "fin" \/ x.m = <<>> THEN x
    ELSE LET d == BDivInt(BShl(x.m, 90), n)
         IN RoundFin(x.s, d.q, x.e - 90, d.r # 0)

\* i * x for an integer i, 0 <= i <= 2^30 (i is converted to float first,
\* exactly).
DMulInt(i, x) ==
    IF x.k = "nan" THEN NaN
    ELSE IF x.k = "inf" THEN IF i = 0 THEN NaN ELSE x
    ELSE IF i = 0 THEN Zero(x.s)
    ELSE RoundFin(x.s, BMulInt(x.m, i), x.e, FALSE)

\* -1, 0 or 1 as x < y, x = y or x > y, for finite x and y.
FinCmp(x, y) ==
    IF x.m = <<>> /\ y.m = <<>> THEN 0
    ELSE IF x.s # y.s THEN IF x.s = 1 THEN -1 ELSE 1
    ELSE LET e == Min2(x.e, y.e)
             c == BCmp(BShl(x.m, x.e - e), BShl(y.m, y.e - e))
         IN IF x.s = 0 THEN c ELSE 0 - c

\* x < y
DLt(x, y) ==
    IF x.k = "nan" \/ y.k = "nan" THEN FALSE
    ELSE IF x.k = "inf" THEN x.s = 1 /\ ~(y.k = "inf" /\ y.s = 1)
    ELSE IF y.k = "inf" THEN y.s = 0
    ELSE FinCmp(x, y) = -1

\* x == y
DEq(x, y) ==
    IF x.k = "nan" \/ y.k = "nan" THEN FALSE
    ELSE IF x.k = "inf" \/ y.k = "inf" THEN x.k = y.k /\ x.s = y.s
    ELSE FinCmp(x, y) = 0

\* struct.unpack('>f', w)[0] for four bytes w: an IEEE-754 binary32, most
\* significant byte first, converted exactly.
Float32(w) ==
    LET s    == w[1] \div 128
        ex   == (w[1] % 128) * 2 + w[2] \div 128
        frac == (w[2] % 128) * 65536 + w[3] * 256 + w[4]
    IN IF ex = 255 THEN IF frac = 0 THEN Inf(s) ELSE NaN
       ELSE IF ex = 0 THEN Canonical(s, BFromInt(frac), 0 - 149)
       ELSE Canonical(s, BFromInt(8388608 + frac), ex - 150)

Reverse(w) == [j \in 1..Len(w) |-> w[Len(w) + 1 - j]]

----------------------------------------------------------------------------
(* Step 3 of process_spectro_file: the format and the decoded values *)

\* The outcome of a call that raised, and of one that returned v.
Raised == [ok |-> FALSE, v |-> <<>>]

Returned(v) == [ok |-> TRUE, v |-> v]

\* The i-th group of size bytes of d, i >= 1.
Group(d, size, i) == SubSeq(d, size * (i - 1) + 1, size * i)

\* UnpackFloats with the format 'd' (8 bytes a value) for 'f'.
UnpackFloatsAsDoubles(order, cnt, d) ==
    IF Len(d) # 8 * cnt THEN Raised
    ELSE Returned([i \in 1..cnt |-> Float32(Group(d, 8, i))])

\* struct.unpack(order + 'f'*cnt, d), order "<" or ">": struct.error unless
\* d holds exactly 4*cnt bytes.
UnpackFloats(order, cnt, d) ==
    IF Len(d) # 4 * cnt THEN Raised
    ELSE Returned([i \in 1..cnt |->
            Float32(IF order = "<" THEN Reverse(Group(d, 4, i))
                                   ELSE Group(d, 4, i))])

\* struct.unpack('<' + 'H'*cnt, d)
UnpackShorts(cnt, d) ==
    IF Len(d) # 2 * cnt THEN Raised
    ELSE Returned([i \in 1..cnt |->
            Group(d, 2, i)[1] + 256 * Group(d, 2, i)[2]])

\* The bound of the plausible range of a value.
PlausibleLimit == 1000

\* The test of score_float_array on one value x.
Plausible(x) ==
    /\ ~DEq(x, Inf(0))
    /\ ~DEq(x, Inf(1))
    /\ ~(~DEq(x, x))
    /\ DLt(DFromInt(0 - PlausibleLimit), x)
    /\ DLt(x, DFromInt(PlausibleLimit))

RECURSIVE ScoreLoop(_, _, _)
ScoreLoop(arr, i, valid_vals) ==
    IF i > Len(arr) THEN valid_vals
    ELSE ScoreLoop(arr, i + 1,
                   IF Plausible(arr[i]) THEN valid_vals + 1 ELSE valid_vals)

score_float_array(arr) == ScoreLoop(arr, 1, 0)

\* ChooseBigEndian with a tie going to little-endian.
ChooseBigEndianStrict(score_be, score_le) == score_be > score_le

\* Whether the big-endian reading is kept.
ChooseBigEndian(score_be, score_le) == score_be >= score_le

\* FormatClass without the tests n > 0.
FormatClassNoPositive(n) ==
    IF n % 4 = 0 THEN "float32"
    ELSE IF n % 2 = 0 THEN "int16"
    ELSE "bytes"

\* The branch of the format test taken for n data bytes.
FormatClass(n) ==
    IF n % 4 = 0 /\ n > 0 THEN "float32"
    ELSE IF n % 2 = 0 /\ n > 0 THEN "int16"
    ELSE "bytes"

\* data_point_count, values and data_type for the data bytes d.
Decode(d) ==
    LET n == Len(d)
    IN IF FormatClass(n) = "float32"
       THEN LET cnt       == n \div 4
                floats_le == UnpackFloats("<", cnt, d)
                floats_be == UnpackFloats(">", cnt, d)
            IN IF ~floats_le.ok \/ ~floats_be.ok
               THEN [ok |-> FALSE, cnt |-> cnt, values |-> <<>>,
                     data_type |-> "None"]
               ELSE IF ChooseBigEndian(score_float_array(floats_be.v),
                                       score_float_array(floats_le.v))
                    THEN [ok |-> TRUE, cnt |-> cnt, values |-> floats_be.v,
                          data_type |-> "float32_be"]
                    ELSE [ok |-> TRUE, cnt |-> cnt, values |-> floats_le.v,
                          data_type |-> "float32_le"]
       ELSE IF FormatClass(n) = "int16"
       THEN LET cnt  == n \div 2
                ints == UnpackShorts(cnt, d)
            IN IF ~ints.ok
               THEN [ok |-> FALSE, cnt |-> cnt, values |-> <<>>,
                     data_type |-> "None"]
               ELSE [ok |-> TRUE, cnt |-> cnt, values |-> ints.v,
                     data_type |-> "int16"]
       ELSE [ok |-> TRUE, cnt |-> n, values |-> d, data_type |-> "bytes"]

----------------------------------------------------------------------------
(* Step 4 of process_spectro_file: the wavelength axis *)

\* Python's None, where a float is expected.
None == [k |-> "none", s |-> 0, m |-> <<>>, e |-> 0]

IsFloat32(dt) == dt \in {"float32_be", "float32_le"}

\* TryReadAxis reading the 8 bytes after the pattern.
TryReadAxisAfterPattern(c, pi) ==
    LET a == UnpackFloats(">", 1, PySlice(c, pi + 8, pi + 12))
        b == UnpackFloats(">", 1, PySlice(c, pi + 12, pi + 16))
    IN IF a.ok /\ b.ok
       THEN [start_wl |-> a.v[1], end_wl |-> b.v[1]]
       ELSE [start_wl |-> None, end_wl |-> None]

\* The try block: both wavelengths, or None for both when a read raises.
TryReadAxis(c, pi) ==
    LET a == UnpackFloats(">", 1, PySlice(c, pi - 8, pi - 4))
        b == UnpackFloats(">", 1, PySlice(c, pi - 4, pi))
    IN IF a.ok /\ b.ok
       THEN [start_wl |-> a.v[1], end_wl |-> b.v[1]]
       ELSE [start_wl |-> None, end_wl |-> None]

\* start_wl and end_wl as read from the header, None when they are not.
ReadAxis(c, pi) ==
    IF pi # -1 THEN TryReadAxis(c, pi)
    ELSE [start_wl |-> None, end_wl |-> None]

\* start_wl and end_wl after the default is applied.
AxisRange(c, pi, cnt) ==
    LET r == ReadAxis(c, pi)
    IN IF r.start_wl = None \/ r.end_wl = None
       THEN [start_wl |-> Zero(0), end_wl |-> DFromInt(cnt - 1)]
       ELSE r

\* step, for cnt > 1 (it is the integer 0 otherwise).
Step(start_wl, end_wl, cnt) == DDivInt(DSub(end_wl, start_wl), cnt - 1)

\* AxisValue with the test of the step inverted: step is always 0.
AxisValueStepZero(start_wl, end_wl, cnt, i) == DAdd(start_wl, DFromInt(i * 0))

\* start_wl + i*step
AxisValue(start_wl, end_wl, cnt, i) ==
    IF cnt > 1
    THEN DAdd(start_wl, DMulInt(i, Step(start_wl, end_wl, cnt)))
    ELSE DAdd(start_wl, DFromInt(i * 0))

\* wavelengths
Wavelengths(c, pi, dt, cnt) ==
    IF IsFloat32(dt)
    THEN LET r == AxisRange(c, pi, cnt)
         IN [i \in 1..cnt |-> AxisValue(r.start_wl, r.end_wl, cnt, i - 1)]
    ELSE [i \in 1..cnt |-> i - 1]

\* zip(wavelengths, values)
Zip(wl, vals) == [i \in 1..Min2(Len(wl), Len(vals)) |-> <<wl[i], vals[i]>>]

----------------------------------------------------------------------------
(* Paths and files.  A path is a sequence of one-character strings.  A     *)
(* file is absent, or holds bytes (kind "bin"), or holds the table that    *)
(* step 5 wrote (kind "csv": the rows, before they are formatted as text). *)

RECURSIVE LastDot(_, _)
\* The position of the last "." among the first i characters of p, or 0.
LastDot(p, i) ==
    IF i = 0 THEN 0 ELSE IF p[i] = "." THEN i ELSE LastDot(p, i - 1)

\* input_path.rsplit('.', 1)[0]
RSplitHead(p) ==
    IF LastDot(p, Len(p)) = 0 THEN p
    ELSE SubSeq(p, 1, LastDot(p, Len(p)) - 1)

\* output_path = input_path.rsplit('.', 1)[0] + ".csv"
OutputPath(p) == RSplitHead(p) \o <<".", "c", "s", "v">>

Absent == [kind |-> "absent", data |-> <<>>]

BinFile(b) == [kind |-> "bin", data |-> b]

CsvFile(r) == [kind |-> "csv", data |-> r]

\* The character a byte of the command line that is not UTF-8 becomes in
\* sys.argv (a lone surrogate, U+DC80..U+DCFF).
Surrogate == "U+DCFE"

\* Whether a stream with a strict encoding can encode the path.
Encodable(p) == \A i \in 1..Len(p) : p[i] # Surrogate

\* Whether print raises (UnicodeEncodeError) on a message naming path p:
\* sys.stdout encodes strictly in a UTF-8 locale, and with the
\* surrogateescape handler, which encodes every path, in the C locale.
PrintRaises(strict, p) == strict /\ ~Encodable(p)

\* open(output_path, 'w'): the file is created, or emptied.
Truncate(disk, p) == [disk EXCEPT ![p] = BinFile(<<>>)]

\* f.read() of a file opened with 'rb'.  A "csv" file is never read: its
\* path is its own output path, so it is emptied before the read.
ReadAll(f) == IF f.kind = "bin" THEN f.data ELSE <<>>

----------------------------------------------------------------------------
(* The inputs of the model *)

\* The most data points of a generated data region.
MaxPoints == 3

\* The most paths on a generated command line.
MaxArgs == 3

\* Four bytes, most significant first, of the 32-bit word with these bytes.
W(a, b, c, d) == <<a, b, c, d>>

\* n copies of the byte b.
Fill(n, b) == [j \in 1..n |-> b]

\* All sequences over S of length 0..n.
SeqsUpTo(S, n) == UNION {[1..k -> S] : k \in 0..n}

RECURSIVE Concat(_)
\* The concatenation of a sequence of byte strings.
Concat(ss) == IF ss = <<>> THEN <<>> ELSE Head(ss) \o Concat(Tail(ss))

F400 == W(67, 200, 0, 0)      \* 400.0, big-endian
F700 == W(68, 47, 0, 0)       \* 700.0
F1   == W(63, 128, 0, 0)      \* 1.0
F2   == W(64, 0, 0, 0)        \* 2.0

WavHeader == WavTag \o NullByte

\* Data words whose two readings differ in plausibility.
DataWords ==
    { F1,                     \* 1.0 big-endian, a denormal little-endian
      W(0, 0, 128, 63),       \* 1.0 little-endian, a denormal big-endian
      W(68, 122, 0, 0),       \* 1000.0 big-endian (not inside the range)
      W(68, 121, 255, 255),   \* 999.99994 big-endian, NaN little-endian
      W(0, 0, 128, 127),      \* +infinity little-endian
      W(196, 122, 0, 1) }     \* just below -1000.0 big-endian

\* Odd bytes after the last whole word: the length of the data region
\* takes every residue modulo 4.
Tails == {<<>>, <<7>>, <<7, 0>>, <<7, 0, 9>>}

\* Words read as start and end wavelengths.
AxisWords ==
    { F400, F700,
      W(0, 0, 0, 0),          \* 0.0
      W(128, 0, 0, 0),        \* -0.0
      W(61, 204, 204, 205),   \* 0.1 (rounded to binary32)
      W(0, 0, 0, 1),          \* the least positive binary32
      W(127, 127, 255, 255),  \* the greatest finite binary32
      W(255, 127, 255, 255),  \* the least finite binary32
      W(127, 128, 0, 0),      \* +infinity
      W(255, 128, 0, 0),      \* -infinity
      W(127, 192, 0, 0) }     \* NaN

\* Neighbouring binary32 values: 2^127 and the values next to it.
NeighbourWords ==
    { W(126, 255, 255, 255),  \* 2^127 - 2^103
      W(127, 0, 0, 0),        \* 2^127
      W(127, 0, 0, 1) }       \* 2^127 + 2^104

\* Point counts of data regions of 1 GiB, 2 GiB and 4 GiB.
LargeCounts == {2^28, 2^28 + 1, 2^29, 2^30 + 1}

\* The indices i of range(cnt) whose elements i and i + 1 are computed:
\* all of them for the counts of Spec, and some for the large counts.
Indices(cnt) ==
    IF cnt <= Radix THEN 0..Max2(cnt - 2, 0)
    ELSE {i \in {0, 1, cnt \div 4, 134217727, cnt \div 2, 268435449,
                 cnt - 3, cnt - 2} : i <= cnt - 2}

\* Format and byte order: a located header, then every data region.
FormatBuffers ==
    { WavHeader \o F400 \o F700 \o pattern \o Concat(ws) \o t :
        ws \in SeqsUpTo(DataWords, MaxPoints), t \in Tails }

\* The axis: every pair of axis words before the pattern, 1..MaxPoints points.
AxisBuffers ==
    { WavHeader \o a \o b \o pattern \o Concat([j \in 1..n |-> F1]) :
        a \in AxisWords, b \in AxisWords, n \in 1..MaxPoints }

\* Header location: with and without ".WAV", its null byte and the pattern,
\* and with the pattern before the end of the ASCII header.
HeaderHeads ==
    { <<>>, WavHeader, WavTag, <<88>> \o WavHeader, pattern \o WavHeader,
      <<46, 87, 65>>, WavHeader \o WavTag, WavTag \o WavHeader }

PadLens == {0, 3, Len(pattern), MinHeader - Len(WavHeader), MinHeader}

HeaderBuffers ==
    { h \o Fill(n, 65) \o m \o d :
        h \in HeaderHeads, n \in PadLens,
        m \in {<<>>, pattern, pattern \o pattern},
        d \in {<<>>, F1, F1 \o <<7>>, F1 \o <<7, 0>>} }

\* The 92 bytes of scenario 1, some holding (part of) the pattern.
Fillers(n) ==
    { Fill(n, 65), Fill(n, 0), Fill(n, 64),
      Fill(n - 8, 65) \o pattern,
      Fill(n - 6, 65) \o SubSeq(pattern, 1, 6),
      pattern \o Fill(n - 8, 65),
      Fill(n - 8, 65) \o F2 \o F1 }

\* Scenario 1 as the specification words it: the wavelengths after the
\* pattern.
Scenario1Stated ==
    { WavHeader \o f \o pattern \o F400 \o F700 \o F1 \o F2 : f \in Fillers(92) }

\* Scenario 1 with the wavelengths where the decoder reads them: in the 8
\* bytes before the pattern.
Scenario1Layout ==
    { WavHeader \o f \o F400 \o F700 \o pattern \o F1 \o F2 : f \in Fillers(84) }

\* The pattern at an offset below 8, float data, and wavelengths in the
\* last 8 bytes of the buffer.
EarlyPatternBuffers ==
    { Fill(n, 66) \o pattern \o Concat([j \in 1..k |-> F1]) \o F400 \o F700 :
        n \in 0..(Len(pattern) - 1), k \in 0..1 }

Buffers ==
    FormatBuffers \cup AxisBuffers \cup HeaderBuffers \cup Scenario1Stated
        \cup Scenario1Layout \cup EarlyPatternBuffers

\* The path of the one file of the decoder's specification.
InPath == <<"i", "n", ".", "s", "p">>

PathA    == <<"a", ".", "s", "p">>
PathADat == <<"a", ".", "d", "a", "t">>
PathACsv == <<"a", ".", "c", "s", "v">>
PathB    == <<"b">>
PathGone == <<"g", "o", "n", "e", ".", "s", "p">>
PathOdd  == <<Surrogate, ".", "s", "p">>

\* The paths a command line is drawn from; PathGone names no file.
PathSet == {PathA, PathADat, PathACsv, PathB, PathGone, PathOdd}

AllPaths == PathSet \cup {OutputPath(p) : p \in PathSet}
                \cup {InPath, OutputPath(InPath)}

\* The files present before the batch runs.
DiskFS ==
    [p \in AllPaths |->
        IF p = PathA THEN BinFile(WavHeader \o F400 \o F700 \o pattern \o F1 \o F2)
        ELSE IF p = PathADat THEN BinFile(pattern \o <<1, 2>>)
        ELSE IF p = PathACsv THEN BinFile(pattern \o F2 \o F1)
        ELSE IF p = PathB THEN BinFile(<<1, 2, 3>>)
        ELSE IF p = PathOdd THEN BinFile(<<4, 5>>)
        ELSE Absent]

ArgLists == UNION {[1..k -> PathSet] : k \in 1..MaxArgs}

----------------------------------------------------------------------------
(* The state machine *)

\* The locals of process_spectro_file before it assigns them.
LocalsUnset ==
    /\ output_path = <<>>
    /\ content = <<>>
    /\ header_end = 0
    /\ pat_idx = -1
    /\ data_type = "None"
    /\ data_point_count = 0
    /\ values = <<>>
    /\ wavelengths = <<>>
    /\ rows = <<>>

\* No element of the wavelengths is singled out.
AxisUnset ==
    [start_wl |-> None, end_wl |-> None, cnt |-> 0, i |-> 0,
     wl |-> None, wl_next |-> None]

\* One call of process_spectro_file on a file holding any of the buffers.
Init ==
    /\ \E b \in Buffers :
          fs = [p \in AllPaths |-> IF p = InPath THEN BinFile(b) ELSE Absent]
    /\ stdout_strict = FALSE
    /\ argv = <<InPath>>
    /\ fi = 1
    /\ input_path = InPath
    /\ producer = [p \in AllPaths |-> <<>>]
    /\ log = <<>>
    /\ LocalsUnset
    /\ axis = AxisUnset
    /\ pc = "call"

\* The command line: any list of paths, over the files of DiskFS, with a
\* standard output of either kind.
BatchInit ==
    /\ argv \in ArgLists
    /\ stdout_strict \in BOOLEAN
    /\ fs = DiskFS
    /\ fi = 1
    /\ input_path = <<>>
    /\ producer = [p \in AllPaths |-> <<>>]
    /\ log = <<>>
    /\ LocalsUnset
    /\ axis = AxisUnset
    /\ pc = "loop"

\* for filepath in sys.argv[1:]: the call of process_spectro_file.
Iterate ==
    /\ pc = "loop"
    /\ fi <= Len(argv)
    /\ input_path' = argv[fi]
    /\ pc' = "call"
    /\ UNCHANGED <<axis, stdout_strict, argv, fi, fs, producer, log,
                   output_path, content, header_end, pat_idx, data_type,
                   data_point_count, values, wavelengths, rows>>

\* Lines 6-8: the output path, both opens (the input first; the output is
\* created or emptied), and the read of the whole input.
OpenFile ==
    /\ pc = "call"
    /\ output_path' = OutputPath(input_path)
    /\ IF fs[input_path].kind = "absent"
       THEN /\ pc' = "raised"
            /\ UNCHANGED <<fs, producer, content>>
       ELSE /\ fs' = Truncate(fs, OutputPath(input_path))
            /\ producer' = [producer EXCEPT ![OutputPath(input_path)] = input_path]
            /\ content' = ReadAll(fs'[input_path])
            /\ pc' = "locate"
    /\ UNCHANGED <<axis, stdout_strict, argv, fi, log, input_path, header_end,
                   pat_idx, data_type, data_point_count, values, wavelengths,
                   rows>>

\* Lines 11-24: the end of the header.
Locate ==
    /\ pc = "locate"
    /\ pat_idx' = PatIdx(content)
    /\ header_end' = HeaderEnd(content)
    /\ pc' = "detect"
    /\ UNCHANGED <<axis, stdout_strict, argv, fi, fs, producer, log,
                   input_path, output_path, content, data_type,
                   data_point_count, values, wavelengths, rows>>

\* Lines 26-66: the format and the values.
Detect ==
    /\ pc = "detect"
    /\ LET r == Decode(DataBytes(content, header_end))
       IN /\ data_point_count' = r.cnt
          /\ values' = r.values
          /\ data_type' = r.data_type
          /\ pc' = IF r.ok THEN "axis" ELSE "raised"
    /\ UNCHANGED <<axis, stdout_strict, argv, fi, fs, producer, log,
                   input_path, output_path, content, header_end, pat_idx,
                   wavelengths, rows>>

\* Lines 68-87: the wavelengths.
Axis ==
    /\ pc = "axis"
    /\ wavelengths' = Wavelengths(content, pat_idx, data_type, data_point_count)
    /\ pc' = "emit"
    /\ UNCHANGED <<axis, stdout_strict, argv, fi, fs, producer, log,
                   input_path, output_path, content, header_end, pat_idx,
                   data_type, data_point_count, values, rows>>

\* Lines 89-92: the rows written to the output file, the message, and
\* the return.
Emit ==
    /\ pc = "emit"
    /\ rows' = Zip(wavelengths, values)
    /\ fs' = [fs EXCEPT ![output_path] = CsvFile(rows')]
    /\ pc' = IF PrintRaises(stdout_strict, input_path) THEN "raised" ELSE "done"
    /\ UNCHANGED <<axis, stdout_strict, argv, fi, producer, log, input_path,
                   output_path, content, header_end, pat_idx, data_type,
                   data_point_count, values, wavelengths>>

\* The locals of a call that ended.
DropLocals ==
    /\ output_path' = <<>>
    /\ content' = <<>>
    /\ header_end' = 0
    /\ pat_idx' = -1
    /\ data_type' = "None"
    /\ data_point_count' = 0
    /\ values' = <<>>
    /\ wavelengths' = <<>>
    /\ rows' = <<>>

\* The call returned: the next path.
Return ==
    /\ pc = "done"
    /\ log' = Append(log, <<input_path, "ok">>)
    /\ fi' = fi + 1
    /\ pc' = "loop"
    /\ DropLocals
    /\ UNCHANGED <<axis, stdout_strict, argv, fs, producer, input_path>>

\* Lines 102-103: except Exception, the message, and the next path; an
\* exception raised by the message itself is caught by nothing and ends
\* the program.
HandleError ==
    /\ pc = "raised"
    /\ IF PrintRaises(stdout_strict, input_path)
       THEN /\ pc' = "crashed"
            /\ UNCHANGED <<fi, log>>
       ELSE /\ log' = Append(log, <<input_path, "error">>)
            /\ fi' = fi + 1
            /\ pc' = "loop"
    /\ DropLocals
    /\ UNCHANGED <<axis, stdout_strict, argv, fs, producer, input_path>>

\* process_spectro_file, on one file.
Next == OpenFile \/ Locate \/ Detect \/ Axis \/ Emit

Spec == Init /\ [][Next]_vars

\* The command-line loop.
BatchNext ==
    Iterate \/ OpenFile \/ Locate \/ Detect \/ Axis \/ Emit \/ Return
        \/ HandleError

BatchSpec == BatchInit /\ [][BatchNext]_vars

\* The wavelengths at line 79, for float data: start_wl and end_wl are any
\* two binary32 values, data_point_count is a count of Spec or a large
\* one, and i is an index of range(data_point_count).
AxisArgs ==
    /\ \E a \in AxisWords \cup NeighbourWords,
          b \in AxisWords \cup NeighbourWords,
          n \in (1..MaxPoints) \cup LargeCounts :
          \E j \in Indices(n) :
             axis = [AxisUnset EXCEPT !.start_wl = Float32(a),
                                      !.end_wl = Float32(b),
                                      !.cnt = n, !.i = j]
    /\ stdout_strict = FALSE
    /\ argv = <<InPath>>
    /\ fi = 1
    /\ fs = [p \in AllPaths |-> Absent]
    /\ input_path = InPath
    /\ producer = [p \in AllPaths |-> <<>>]
    /\ log = <<>>
    /\ LocalsUnset
    /\ pc = "range"

\* Lines 83-84: step, and the elements i and i + 1 of the wavelengths.
AxisElements ==
    /\ pc = "range"
    /\ axis' = [axis EXCEPT
                  !.wl = AxisValue(axis.start_wl, axis.end_wl, axis.cnt, axis.i),
                  !.wl_next =
                      IF axis.i + 1 < axis.cnt
                      THEN AxisValue(axis.start_wl, axis.end_wl, axis.cnt,
                                     axis.i + 1)
                      ELSE None]
    /\ pc' = "elements"
    /\ UNCHANGED <<stdout_strict, argv, fi, fs, producer, log, input_path,
                   output_path, content, header_end, pat_idx, data_type,
                   data_point_count, values, wavelengths, rows>>

AxisInit == Init \/ AxisArgs

AxisNext == OpenFile \/ Locate \/ Detect \/ Axis \/ Emit \/ AxisElements

AxisSpec == AxisInit /\ [][AxisNext]_vars

----------------------------------------------------------------------------
(* The claims *)

Labels == {"float32_be", "float32_le", "int16", "bytes"}

\* The header has been located.
Located == pc \in {"detect", "axis", "emit", "done"}

\* The number of bytes from header_end to the end of the buffer.
RegionLen == IF header_end >= Len(content) THEN 0 ELSE Len(content) - header_end

\* Whether two files are alike: of one kind, with the same contents.
SameFile(f, g) == f.kind = g.kind /\ f.data = g.data

\* C1: for every buffer the decode completes without raising: no state is
\* one where an exception was raised (every state is at a step of the
\* decode or at its end), and the end holds one of the four labels and a
\* row sequence, also when header_end lies beyond the end of the buffer.
C1_DecodeNeverRaises ==
    /\ pc # "raised"
    /\ pc \in {"call", "locate", "detect", "axis", "emit", "done"}
    /\ pc \in {"axis", "emit", "done"} => data_type \in Labels
    /\ pc = "done" =>
         /\ Len(rows) = data_point_count
         /\ SameFile(fs[output_path], CsvFile(rows))

C1_Witness ==
    /\ pc = "done"
    /\ header_end > Len(content)
    /\ data_type = "bytes"
    /\ rows = <<>>

\* Whether ".WAV" stands at offset k of the buffer.
WavAt(k) ==
    /\ k + 4 <= Len(content)
    /\ content[k + 1] = 46 /\ content[k + 2] = 87
    /\ content[k + 3] = 65 /\ content[k + 4] = 86

\* Whether p is the provisional boundary of the claim: one past the first
\* null byte at or after the first ".WAV" when both exist, else 0.
IsProvisional(p) ==
    LET wavs  == {k \in 0..Len(content) : WavAt(k)}
        nulls == {z \in 0..(Len(content) - 1) :
                    content[z + 1] = 0 /\ \E k \in wavs : k <= z}
    IN IF wavs = {} \/ nulls = {}
       THEN p = 0
       ELSE \E k \in wavs :
               /\ \A j \in wavs : k <= j
               /\ p - 1 \in nulls
               /\ k <= p - 1
               /\ \A z \in nulls : z >= k => p - 1 <= z

\* Whether the 8 marker bytes stand at offset k.
MarkerAt(k) ==
    /\ k + 8 <= Len(content)
    /\ \A j \in 1..4 : content[k + j] = 0
    /\ content[k + 5] = 64 /\ content[k + 6] = 64
    /\ content[k + 7] = 0 /\ content[k + 8] = 0

\* C2: with p the provisional boundary, pat_idx is the lowest offset at or
\* after p where the marker stands and header_end is pat_idx + 8; when the
\* marker stands nowhere at or after p, pat_idx is absent (-1) and
\* header_end is max(p, 100).
C2_HeaderLocation ==
    Located =>
        \E p \in 0..Len(content) :
            /\ IsProvisional(p)
            /\ IF \E k \in p..Len(content) : MarkerAt(k)
               THEN /\ pat_idx >= p
                    /\ MarkerAt(pat_idx)
                    /\ \A j \in p..(pat_idx - 1) : ~MarkerAt(j)
                    /\ header_end = pat_idx + 8
               ELSE /\ pat_idx = -1
                    /\ header_end = IF p >= 100 THEN p ELSE 100

\* A marker before the provisional boundary is passed over for a later one.
C2_Witness ==
    /\ pc = "done"
    /\ MarkerAt(0)
    /\ WavAt(8)
    /\ pat_idx > 8

\* C3 as claimed: 0 <= header_end <= length of the buffer.
C3_Original == Located => 0 <= header_end /\ header_end <= Len(content)

\* C3, amended: 0 <= header_end <= max(length of the buffer, 100), and
\* header_end <= length of the buffer whenever the marker is found.
C3_HeaderBoundaryRange ==
    Located =>
        /\ 0 <= header_end
        /\ header_end <= (IF Len(content) >= 100 THEN Len(content) ELSE 100)
        /\ pat_idx # -1 => header_end <= Len(content)

C3_Witness ==
    /\ pc = "done"
    /\ pat_idx = -1
    /\ header_end = 100
    /\ Len(content) < 100

\* C4: with n the length of the data region, n > 0 and a multiple of 4
\* gives a float32 label and n/4 rows; else n > 0 and even gives int16 and
\* n/2 rows; else the label is bytes and there are n rows; and there are as
\* many wavelengths as values.
C4_RowCounts ==
    pc = "done" =>
        /\ Len(wavelengths) = Len(values)
        /\ IF RegionLen > 0 /\ RegionLen % 4 = 0
           THEN /\ data_type \in {"float32_be", "float32_le"}
                /\ Len(rows) = RegionLen \div 4
           ELSE IF RegionLen > 0 /\ RegionLen % 2 = 0
           THEN /\ data_type = "int16"
                /\ Len(rows) = RegionLen \div 2
           ELSE /\ data_type = "bytes"
                /\ Len(rows) = RegionLen

\* Scenario 3: a data region of 6 bytes.
C4_Witness ==
    /\ pc = "done"
    /\ RegionLen = 6
    /\ data_type = "int16"
    /\ Len(rows) = 3

\* The i-th 4-byte word of the data region, as stored.
RegionWord(i) == [j \in 1..4 |-> content[header_end + 4 * (i - 1) + j]]

\* Whether the binary32 with the bytes w (most significant first) is
\* neither an infinity nor a NaN and lies strictly inside (-1000, 1000): its
\* bits without the sign are below those of 1000.0, 0x447A0000.
InsideRange(w) ==
    (w[1] % 128) * 16777216 + w[2] * 65536 + w[3] * 256 + w[4] < 1148846080

ScoreBE == Cardinality({i \in 1..(RegionLen \div 4) : InsideRange(RegionWord(i))})

ScoreLE ==
    Cardinality({i \in 1..(RegionLen \div 4) : InsideRange(Reverse(RegionWord(i)))})

\* C5: when the data region is a positive multiple of 4 bytes long,
\* big-endian is selected, with the big-endian values, exactly when its
\* score is at least the little-endian score, and little-endian, with the
\* little-endian values, exactly when the little-endian score is greater.
C5_EndianChoice ==
    (pc = "done" /\ RegionLen > 0 /\ RegionLen % 4 = 0) =>
        /\ ScoreBE >= ScoreLE <=>
             /\ data_type = "float32_be"
             /\ values = [i \in 1..(RegionLen \div 4) |-> Float32(RegionWord(i))]
        /\ ScoreLE > ScoreBE <=>
             /\ data_type = "float32_le"
             /\ values = [i \in 1..(RegionLen \div 4) |->
                            Float32(Reverse(RegionWord(i)))]

\* Scenario 4: the little-endian reading has more values in range.
C5_Witness ==
    /\ pc = "done"
    /\ data_type = "float32_le"
    /\ ScoreLE > ScoreBE
    /\ ScoreBE > 0

\* 400.0, 700.0, 1.0 and 2.0
D400 == [k |-> "fin", s |-> 0, m |-> <<25>>, e |-> 4]

D700 == [k |-> "fin", s |-> 0, m |-> <<175>>, e |-> 2]

D1 == [k |-> "fin", s |-> 0, m |-> <<1>>, e |-> 0]

D2 == [k |-> "fin", s |-> 0, m |-> <<1>>, e |-> 1]

\* The result of scenario 1.
Scenario1Result ==
    /\ data_type = "float32_be"
    /\ pat_idx = header_end - 8
    /\ MarkerAt(pat_idx)
    /\ wavelengths = <<D400, D700>>
    /\ values = <<D1, D2>>
    /\ rows = <<<<D400, D1>>, <<D700, D2>>>>

\* C6 as claimed: ".WAV\0", 92 arbitrary bytes, the marker, 400.0 and
\* 700.0, then 1.0 and 2.0 decode to float32_be, header_end just after the
\* marker, and the two rows (400.0, 1.0), (700.0, 2.0).
C6_Original ==
    (pc = "done" /\ content \in Scenario1Stated) =>
        Scenario1Result /\ header_end = 105

\* C6, amended: ".WAV\0", 84 bytes that complete no occurrence of the
\* marker before offset 97, 400.0 and 700.0, the marker, then 1.0 and 2.0
\* decode to float32_be, header_end just after the marker, and the two rows
\* (400.0, 1.0), (700.0, 2.0).
C6_Scenario1 ==
    (/\ pc = "done"
     /\ content \in Scenario1Layout
     /\ \A k \in 5..96 : ~MarkerAt(k)) =>
        Scenario1Result /\ header_end = 105

C6_Witness ==
    /\ pc = "done"
    /\ content \in Scenario1Layout
    /\ \A k \in 5..96 : ~MarkerAt(k)
    /\ header_end = 105
    /\ Len(rows) = 2

\* The wavelengths have been computed.
AxisDone == pc \in {"emit", "done"}

\* C7: with a float32 format and the marker at an offset below 8, the
\* wavelengths are the index default, start 0.0 and end N-1, so
\* wavelength[i] = i; no byte of the buffer is used as a wavelength.
C7_EarlyMarkerDefaultAxis ==
    (AxisDone /\ IsFloat32(data_type) /\ pat_idx >= 0 /\ pat_idx < 8) =>
        /\ AxisRange(content, pat_idx, data_point_count)
             = [start_wl |-> Zero(0), end_wl |-> DFromInt(data_point_count - 1)]
        /\ Len(wavelengths) = data_point_count
        /\ \A i \in 1..data_point_count : wavelengths[i] = DFromInt(i - 1)

\* The marker at offset 0, and 400.0, 700.0 in the last 8 bytes, where the
\* slices content[-8:-4] and content[-4:] would find them.
C7_Witness ==
    /\ pc = "done"
    /\ IsFloat32(data_type)
    /\ pat_idx = 0
    /\ data_point_count = 3
    /\ SubSeq(content, Len(content) - 7, Len(content)) = F400 \o F700
    /\ wavelengths[3] = D2

\* The wavelengths read from the 8 bytes before the marker.
StartRead == Float32(SubSeq(content, pat_idx - 7, pat_idx - 4))

EndRead == Float32(SubSeq(content, pat_idx - 3, pat_idx))

\* The axis was read from the header: float32 data and 8 bytes before the
\* marker.
AxisWasRead == AxisDone /\ IsFloat32(data_type) /\ pat_idx >= 8

Increasing ==
    \A i \in 1..(Len(wavelengths) - 1) : DLt(wavelengths[i], wavelengths[i + 1])

Decreasing ==
    \A i \in 1..(Len(wavelengths) - 1) : DLt(wavelengths[i + 1], wavelengths[i])

\* Two neighbouring elements have been computed, from a start_wl and an
\* end_wl that differ.
NeighboursDone ==
    /\ pc = "elements"
    /\ axis.cnt > 1
    /\ ~DEq(axis.start_wl, axis.end_wl)

\* C8 as claimed: whenever the axis is read and start != end, for every
\* pair of bit patterns and every N > 1, the wavelengths are strictly
\* increasing or strictly decreasing: so are any two neighbours.
C8_Original ==
    /\ (AxisWasRead /\ ~DEq(StartRead, EndRead)) => (Increasing \/ Decreasing)
    /\ NeighboursDone =>
         DLt(axis.wl, axis.wl_next) \/ DLt(axis.wl_next, axis.wl)

\* C8, amended: whenever the axis is read and start != end, there are N
\* wavelengths, for N = 1 the single one is start + 0, and for N > 1, with
\* start and end finite and N - 1 <= 2^28, the wavelengths are strictly
\* increasing (start < end) or strictly decreasing (start > end): so are
\* any two neighbours.
C8_FiniteAxisMonotonic ==
    /\ (AxisWasRead /\ ~DEq(StartRead, EndRead)) =>
         /\ Len(wavelengths) = data_point_count
         /\ data_point_count = 1 =>
              wavelengths = <<DAdd(StartRead, DFromInt(0))>>
         /\ (StartRead.k = "fin" /\ EndRead.k = "fin") =>
              /\ DLt(StartRead, EndRead) => Increasing
              /\ DLt(EndRead, StartRead) => Decreasing
    /\ (/\ NeighboursDone
        /\ axis.start_wl.k = "fin" /\ axis.end_wl.k = "fin"
        /\ axis.cnt - 1 <= 2^28) =>
         /\ DLt(axis.start_wl, axis.end_wl) => DLt(axis.wl, axis.wl_next)
         /\ DLt(axis.end_wl, axis.start_wl) => DLt(axis.wl_next, axis.wl)

\* From 0.1 to 700.0 in three points: a step that is rounded.
C8_Witness ==
    /\ pc = "done"
    /\ AxisWasRead
    /\ data_point_count = 3
    /\ StartRead = Float32(W(61, 204, 204, 205))
    /\ EndRead = D700
    /\ Increasing

\* The paths of the calls that ended, in the order they ended.
LogPaths == [i \in 1..Len(log) |-> log[i][1]]

\* The loop has left the last path behind.
Finished == pc = "loop" /\ fi > Len(argv)

\* C9 as claimed: every path is processed once, in argument order (the
\* calls that ended are the paths before the current one), and no failure
\* while processing a path keeps a later path from being processed: the
\* program never ends with paths left.
C9_Original ==
    /\ fi \in 1..(Len(argv) + 1)
    /\ LogPaths = SubSeq(argv, 1, fi - 1)
    /\ Finished => LogPaths = argv
    /\ pc = "crashed" => fi = Len(argv)

\* C10 as claimed: the output path of a call differs from its input path
\* and from every other input path, the buffer decoded is the whole
\* original file, no input file is changed, and the output of a call that
\* returned is still the one that call produced.
C10_Original ==
    /\ pc \in {"locate", "detect", "axis", "emit", "done"} =>
         /\ output_path # input_path
         /\ \A i \in 1..Len(argv) : output_path # argv[i]
         /\ content = DiskFS[input_path].data
    /\ \A i \in 1..Len(argv) : SameFile(fs[argv[i]], DiskFS[argv[i]])
    /\ \A i \in 1..Len(log) :
         log[i][2] = "ok" => producer[OutputPath(log[i][1])] = log[i][1]

====
